---------------------------- MODULE Spec2Model ----------------------------
(***************************************************************************)
(* gorilla/reverse: reversible regular expressions.                        *)
(*                                                                         *)
(* A pattern is compiled into a forward matcher and a reverse template in  *)
(* fmt syntax (reverse.go); a brace template "{name:pattern}" is first     *)
(* translated to a regular expression (gorillaPattern).                    *)
(*                                                                         *)
(* Strings are sequences of one-character strings.  The standard library   *)
(* packages the code calls (regexp/syntax.Parse, regexp.FindStringSubmatch,*)
(* regexp.QuoteMeta, fmt.Sprintf) are modelled by what they do on the      *)
(* subset of the syntax the patterns of this model are written in:         *)
(* literals, \d and \-escaped punctuation, bracket classes, ( ), (?P<n> ), *)
(* (?: ), |, the greedy * + ?, ^ and $ (no flags, no lazy or counted       *)
(* repetition).                                                            *)
(***************************************************************************)
EXTENDS Integers, Sequences, FiniteSets, TLC

\* A string literal as a sequence of one-character strings.
Chars(str) == [i \in 1..Len(str) |-> SubSeq(str, i, i)]

\* The characters of the model in ASCII order, and those a candidate string
\* or a value may hold.
AsciiOrder == <<"%", ".", "/", "0", "1", "2", "9", "a", "b", "z">>
Alphabet == {"%", ".", "/", "1", "2", "a", "b"}
Code(c) == CHOOSE i \in 1..Len(AsciiOrder) : AsciiOrder[i] = c
Digits == {"1", "2"}
\* Characters allowed in a capture name (isValidCaptureName).
WordChars == {"a", "b", "f", "o", "r", "1", "2", "_"}

---------------------------------------------------------------------------
(* regexp/syntax.Regexp: the syntax tree.                                  *)

Node(op, rune, class, name, cap, sub) ==
    [op |-> op, rune |-> rune, class |-> class, name |-> name,
     cap |-> cap, sub |-> sub]
OpLiteral(rune) == Node("Literal", rune, {}, <<>>, 0, <<>>)
OpCharClass(class) == Node("CharClass", <<>>, class, <<>>, 0, <<>>)
OpCapture(name, cap, sub) == Node("Capture", <<>>, {}, name, cap, <<sub>>)
OpConcat(subs) == Node("Concat", <<>>, {}, <<>>, 0, subs)
OpAlternate(subs) == Node("Alternate", <<>>, {}, <<>>, 0, subs)
OpRepeat(q, sub) ==
    Node(CASE q = "*" -> "Star" [] q = "+" -> "Plus" [] OTHER -> "Quest",
         <<>>, {}, <<>>, 0, <<sub>>)
OpBeginText == Node("BeginText", <<>>, {}, <<>>, 0, <<>>)
OpEndText == Node("EndText", <<>>, {}, <<>>, 0, <<>>)
OpEmptyMatch == Node("EmptyMatch", <<>>, {}, <<>>, 0, <<>>)

---------------------------------------------------------------------------
(* regexp/syntax.Parse(pattern, syntax.Perl).                              *)

ParseFail == [ok |-> FALSE, re |-> OpEmptyMatch, i |-> 0, n |-> 0]
ParseOk(re, i, n) == [ok |-> TRUE, re |-> re, i |-> i, n |-> n]

At(p, i) == IF i >= 1 /\ i <= Len(p) THEN p[i] ELSE ""

\* Position of the first c at or after i, 0 when there is none.
IndexFrom(p, c, i) ==
    IF \E j \in i..Len(p) : p[j] = c
    THEN CHOOSE j \in i..Len(p) : p[j] = c /\ \A k \in i..(j - 1) : p[k] # c
    ELSE 0

IsValidCaptureName(name) ==
    name # <<>> /\ \A k \in 1..Len(name) : name[k] \in WordChars

\* A literal pushed after a literal joins it (parser.maybeConcat).
PushItem(acc, re) ==
    IF acc # <<>> /\ re.op = "Literal" /\ acc[Len(acc)].op = "Literal"
    THEN [acc EXCEPT ![Len(acc)] = OpLiteral(acc[Len(acc)].rune \o re.rune)]
    ELSE Append(acc, re)

MakeConcat(acc) ==
    IF acc = <<>> THEN OpEmptyMatch
    ELSE IF Len(acc) = 1 THEN acc[1] ELSE OpConcat(acc)

MakeAlternate(branches) ==
    IF Len(branches) = 1 THEN branches[1] ELSE OpAlternate(branches)

\* The members of a bracket class between positions i and j - 1: single
\* characters and ranges lo-hi.
RECURSIVE ClassItems(_, _, _)
ClassItems(p, i, j) ==
    IF i >= j THEN {}
    ELSE IF i + 2 < j /\ p[i + 1] = "-"
         THEN {c \in Alphabet : Code(p[i]) <= Code(c) /\ Code(c) <= Code(p[i + 2])}
              \cup ClassItems(p, i + 3, j)
         ELSE ({p[i]} \cap Alphabet) \cup ClassItems(p, i + 1, j)

\* "[...]" at position i: a class, or a literal when it holds one character.
ParseClass(p, i, n) ==
    LET neg == At(p, i + 1) = "^"
        first == IF neg THEN i + 2 ELSE i + 1
        \* a "]" right after the opening is a member, not the end
        close == IndexFrom(p, "]", first + 1)
        items == ClassItems(p, first, close)
    IN  IF close = 0 THEN ParseFail
        ELSE IF neg THEN ParseOk(OpCharClass(Alphabet \ items), close + 1, n)
        ELSE IF close = first + 1 THEN ParseOk(OpLiteral(<<p[first]>>), close + 1, n)
        ELSE ParseOk(OpCharClass(items), close + 1, n)

\* What opens a group at position i with n groups opened so far: where its
\* inside starts, its name and its capture number (0: non-capturing).
GroupOpen(p, i, n) ==
    IF At(p, i + 1) # "?"
    THEN [ok |-> TRUE, j |-> i + 1, name |-> <<>>, cap |-> n + 1]
    ELSE IF At(p, i + 2) = "P" /\ At(p, i + 3) = "<"
    THEN LET e == IndexFrom(p, ">", i + 4)
             name == SubSeq(p, i + 4, e - 1)
         IN  [ok |-> e # 0 /\ IsValidCaptureName(name), j |-> e + 1,
              name |-> name, cap |-> n + 1]
    ELSE [ok |-> At(p, i + 2) = ":", j |-> i + 3, name |-> <<>>, cap |-> 0]

RECURSIVE ParseAlt(_, _, _, _), ParseBranch(_, _, _), ParseCat(_, _, _, _),
          ParseItem(_, _, _), ParseAtom(_, _, _), ParseGroup(_, _, _)

\* A group whose inside was parsed as r: its ")" must follow.
ParseGroup(p, g, r) ==
    IF r.ok /\ At(p, r.i) = ")"
    THEN ParseOk(IF g.cap = 0 THEN r.re ELSE OpCapture(g.name, g.cap, r.re),
                 r.i + 1, r.n)
    ELSE ParseFail

ParseAtom(p, i, n) ==
    CASE p[i] = "(" ->
           LET g == GroupOpen(p, i, n)
           IN  IF ~g.ok THEN ParseFail
               ELSE ParseGroup(p, g, ParseAlt(p, g.j, IF g.cap = 0 THEN n ELSE g.cap,
                                              <<>>))
      [] p[i] = "\\" ->
           IF At(p, i + 1) = "d" THEN ParseOk(OpCharClass(Digits), i + 2, n)
           ELSE IF At(p, i + 1) = "" \/ At(p, i + 1) \in WordChars
           THEN ParseFail
           ELSE ParseOk(OpLiteral(<<p[i + 1]>>), i + 2, n)
      [] p[i] = "[" -> ParseClass(p, i, n)
      [] p[i] = "^" -> ParseOk(OpBeginText, i + 1, n)
      [] p[i] = "$" -> ParseOk(OpEndText, i + 1, n)
      [] p[i] \in {"*", "+", "?"} -> ParseFail
      [] OTHER -> ParseOk(OpLiteral(<<p[i]>>), i + 1, n)

\* The atom a, with the repetition operator that may follow it, joins acc.
ParseItem(p, acc, a) ==
    IF ~a.ok THEN ParseFail
    ELSE IF At(p, a.i) \notin {"*", "+", "?"}
    THEN ParseCat(p, a.i, a.n, PushItem(acc, a.re))
    ELSE IF At(p, a.i + 1) \in {"*", "+", "?"} THEN ParseFail
    ELSE ParseCat(p, a.i + 1, a.n, Append(acc, OpRepeat(p[a.i], a.re)))

\* A concatenation: atoms, each with at most one repetition operator, up
\* to "|", ")" or the end.
ParseCat(p, i, n, acc) ==
    IF i > Len(p) \/ p[i] \in {"|", ")"}
    THEN ParseOk(MakeConcat(acc), i, n)
    ELSE ParseItem(p, acc, ParseAtom(p, i, n))

\* The branch c joins the alternatives acc.
ParseBranch(p, acc, c) ==
    IF ~c.ok THEN ParseFail
    ELSE IF At(p, c.i) = "|"
    THEN ParseAlt(p, c.i + 1, c.n, Append(acc, c.re))
    ELSE ParseOk(MakeAlternate(Append(acc, c.re)), c.i, c.n)

ParseAlt(p, i, n, acc) == ParseBranch(p, acc, ParseCat(p, i, n, <<>>))

\* The whole pattern must be consumed: a stray ")" is an error.
WholePattern(p, parsed) ==
    IF parsed.ok /\ parsed.i = Len(p) + 1 THEN parsed ELSE ParseFail

SyntaxParse(p) == WholePattern(p, ParseAlt(p, 1, 0, <<>>))

---------------------------------------------------------------------------
(* regexp.Regexp.FindStringSubmatch: the leftmost match, and among the     *)
(* matches starting there the one a backtracking search finds first.       *)

\* Capture slot k is <<start, end>> (positions 1..Len(s)+1), or <<0, 0>>
\* for a group that took no part in the match.
NoCaps(n) == [k \in 1..n |-> <<0, 0>>]
MatchAt(pos, caps) == [pos |-> pos, caps |-> caps]

\* Every way re matches s from position i, best first.
RECURSIVE Match(_, _, _, _), MatchSeq(_, _, _, _, _), MatchRest(_, _, _, _, _),
          MatchAny(_, _, _, _, _), MatchMore(_, _, _, _, _)

Match(re, s, i, caps) ==
    CASE re.op = "Literal" ->
           IF i + Len(re.rune) - 1 <= Len(s)
              /\ SubSeq(s, i, i + Len(re.rune) - 1) = re.rune
           THEN <<MatchAt(i + Len(re.rune), caps)>> ELSE <<>>
      [] re.op = "CharClass" ->
           IF i <= Len(s) /\ s[i] \in re.class
           THEN <<MatchAt(i + 1, caps)>> ELSE <<>>
      [] re.op = "BeginText" -> IF i = 1 THEN <<MatchAt(i, caps)>> ELSE <<>>
      [] re.op = "EndText" ->
           IF i = Len(s) + 1 THEN <<MatchAt(i, caps)>> ELSE <<>>
      [] re.op = "EmptyMatch" -> <<MatchAt(i, caps)>>
      [] re.op = "Capture" ->
           LET ms == Match(re.sub[1], s, i, caps)
           IN  [k \in 1..Len(ms) |->
                   MatchAt(ms[k].pos,
                           [ms[k].caps EXCEPT ![re.cap] = <<i, ms[k].pos>>])]
      [] re.op = "Concat" -> MatchSeq(re.sub, 1, s, i, caps)
      [] re.op = "Alternate" -> MatchAny(re.sub, 1, s, i, caps)
      [] re.op = "Star" ->
           MatchMore(re, Match(re.sub[1], s, i, caps), 1, s, i)
           \o <<MatchAt(i, caps)>>
      [] re.op = "Plus" ->
           MatchMore(Node("Star", <<>>, {}, <<>>, 0, re.sub),
                     Match(re.sub[1], s, i, caps), 1, s, 0)
      [] re.op = "Quest" ->
           Match(re.sub[1], s, i, caps) \o <<MatchAt(i, caps)>>

\* subs[k..] in sequence from position i.
MatchSeq(subs, k, s, i, caps) ==
    IF k > Len(subs) THEN <<MatchAt(i, caps)>>
    ELSE MatchRest(subs, k + 1, s, Match(subs[k], s, i, caps), 1)

\* subs[k..] continued from each of the matches ms[j..] of what precedes.
MatchRest(subs, k, s, ms, j) ==
    IF j > Len(ms) THEN <<>>
    ELSE MatchSeq(subs, k, s, ms[j].pos, ms[j].caps)
         \o MatchRest(subs, k, s, ms, j + 1)

\* The alternatives subs[k..], the earlier one preferred.
MatchAny(subs, k, s, i, caps) ==
    IF k > Len(subs) THEN <<>>
    ELSE Match(subs[k], s, i, caps) \o MatchAny(subs, k + 1, s, i, caps)

\* The repetition star continued after each of the iterations ms[j..] that
\* moved past position i.
MatchMore(star, ms, j, s, i) ==
    IF j > Len(ms) THEN <<>>
    ELSE (IF ms[j].pos > i THEN Match(star, s, ms[j].pos, ms[j].caps) ELSE <<>>)
         \o MatchMore(star, ms, j + 1, s, i)

\* The first start position with a match, 0 when there is none.
MatchStart(re, n, s) ==
    IF \E i \in 1..(Len(s) + 1) : Match(re, s, i, NoCaps(n)) # <<>>
    THEN CHOOSE i \in 1..(Len(s) + 1) :
             /\ Match(re, s, i, NoCaps(n)) # <<>>
             /\ \A j \in 1..(i - 1) : Match(re, s, j, NoCaps(n)) = <<>>
    ELSE 0

\* match[0] is the whole match and match[k] the text of group k ("" for a
\* group that took no part); here match[k] is at index k + 1, and the nil
\* slice of no match is the empty sequence.
FindStringSubmatch(re, n, s) ==
    LET i == MatchStart(re, n, s)
    IN  IF i = 0 THEN <<>>
        ELSE LET m == Match(re, s, i, NoCaps(n))[1]
             IN  [k \in 1..(n + 1) |->
                     IF k = 1 THEN SubSeq(s, i, m.pos - 1)
                     ELSE IF m.caps[k - 1] = <<0, 0>> THEN <<>>
                     ELSE SubSeq(s, m.caps[k - 1][1], m.caps[k - 1][2] - 1)]

---------------------------------------------------------------------------
(* fmt.Sprintf(format, args...) with string arguments.                     *)

\* format[i..] rendered with args[k..].  "%%" is a percent sign and "%s"
\* the next argument; a verb without argument, a verb that is neither, a
\* lone trailing "%" and arguments left over render as fmt's error marks.
RECURSIVE Sprintf(_, _, _, _)
Sprintf(format, i, args, k) ==
    IF i > Len(format)
    THEN IF k <= Len(args) THEN <<"%!(EXTRA)">> ELSE <<>>
    ELSE IF format[i] # "%"
    THEN <<format[i]>> \o Sprintf(format, i + 1, args, k)
    ELSE IF i = Len(format) THEN <<"%!(NOVERB)">>
    ELSE IF format[i + 1] = "%"
    THEN <<"%">> \o Sprintf(format, i + 2, args, k)
    ELSE IF k > Len(args)
    THEN <<"%!(MISSING)">> \o Sprintf(format, i + 2, args, k)
    ELSE IF format[i + 1] = "s"
    THEN args[k] \o Sprintf(format, i + 2, args, k + 1)
    ELSE <<"%!(BADVERB)">> \o Sprintf(format, i + 2, args, k + 1)

---------------------------------------------------------------------------
(* reverse.go: the template walk.                                          *)

\* A literal's runes as written to the buffer: '%' is written twice.
writeRunesPlain(rune) == rune
RECURSIVE writeRunes(_)
writeRunes(rune) ==
    IF rune = <<>> THEN <<>>
    ELSE (IF Head(rune) = "%" THEN <<"%", "%">> ELSE <<Head(rune)>>)
         \o writeRunes(Tail(rune))

\* Whether a capture entered at nesting level `level` is an outermost one.
isOutermostAny(level) == TRUE
isOutermost(level) == level = 1

\* The group index after one more capturing group.
nextIndexStuck(index) == IF index = 0 THEN 1 ELSE index
nextIndex(index) == index + 1

newTemplate ==
    [buffer |-> <<>>, groups |-> <<>>, indices |-> <<>>, index |-> 0,
     level |-> 0]

RECURSIVE write(_, _), writeSubs(_, _, _)
write(t, re) ==
    CASE re.op = "Literal" ->
           IF t.level = 0
           THEN [t EXCEPT !.buffer = @ \o writeRunes(re.rune)]
           ELSE t
      [] re.op = "Capture" ->
           LET t1 == [t EXCEPT !.level = @ + 1, !.index = nextIndex(@)]
               t2 == IF isOutermost(t1.level)
                     THEN [t1 EXCEPT !.groups = Append(@, re.name),
                                     !.indices = Append(@, t1.index),
                                     !.buffer = @ \o <<"%", "s">>]
                     ELSE t1
               t3 == writeSubs(t2, re.sub, 1)
           IN  [t3 EXCEPT !.level = @ - 1]
      [] re.op = "Concat" -> writeSubs(t, re.sub, 1)
      [] OTHER -> t

writeSubs(t, subs, k) ==
    IF k > Len(subs) THEN t ELSE writeSubs(write(t, subs[k]), subs, k + 1)

\* The *Regexp.  regexp.Compile fails exactly when syntax.Parse does.
NoRegexp ==
    [ok |-> FALSE, re |-> OpEmptyMatch, n |-> 0, template |-> <<>>,
     groups |-> <<>>, indices |-> <<>>]

NewRegexp(parsed, tpl) ==
    IF ~parsed.ok THEN NoRegexp
    ELSE [ok |-> TRUE, re |-> parsed.re, n |-> parsed.n,
          template |-> tpl.buffer, groups |-> tpl.groups,
          indices |-> tpl.indices]

Walk(parsed) == NewRegexp(parsed, write(newTemplate, parsed.re))

CompileRegexp(pattern) == Walk(SyntaxParse(pattern))

Template(rx) == rx.template
Groups(rx) == rx.groups
Indices(rx) == rx.indices

MatchString(rx, s) == FindStringSubmatch(rx.re, rx.n, s) # <<>>

---------------------------------------------------------------------------
(* url.Values: a map from key to a list of values; nil is the nil map,     *)
(* which reads as empty.                                                   *)

NilValues == [nil |-> TRUE, m |-> <<>>]
MakeValues(m) == [nil |-> FALSE, m |-> m]
Get(values, key) == IF key \in DOMAIN values.m THEN values.m[key] ELSE <<>>
Add(values, key, v) ==
    MakeValues(IF key \in DOMAIN values.m
               THEN [values.m EXCEPT ![key] = Append(@, v)]
               ELSE values.m @@ (key :> <<v>>))
PutNowhere(values, key, vs) == values
Put(values, key, vs) ==
    MakeValues(IF key \in DOMAIN values.m
               THEN [values.m EXCEPT ![key] = vs]
               ELSE values.m @@ (key :> vs))

\* The submatch Values reads for the k-th group.
submatchFirst(rx, match, k) == match[2]
submatch(rx, match, k) == match[rx.indices[k] + 1]

RECURSIVE addGroups(_, _, _, _)
addGroups(rx, match, k, values) ==
    IF k > Len(rx.groups) THEN values
    ELSE addGroups(rx, match, k + 1,
                   Add(values, rx.groups[k], submatch(rx, match, k)))

Values(rx, s) ==
    LET match == FindStringSubmatch(rx.re, rx.n, s)
    IN  IF match # <<>> THEN addGroups(rx, match, 1, MakeValues(<<>>))
        ELSE NilValues

\* The value taken from a key's list, and the list left behind.
takeLast(vs) == vs[Len(vs)]
take(vs) == vs[1]
restAll(vs) == vs
rest(vs) == SubSeq(vs, 2, Len(vs))

Outcome(str, err, key, total, bad, values) ==
    [str |-> str, err |-> err, key |-> key, total |-> total, bad |-> bad,
     values |-> values]

\* The number of variables the missing-key error reports as expected.
requiredAll(rx) == rx.n
required(rx) == Len(rx.groups)

\* The loop of Revert from group k on, vars holding the values taken so far.
RECURSIVE revertFrom(_, _, _, _)
revertFrom(rx, k, vars, values) ==
    IF k > Len(rx.groups)
    THEN Outcome(Sprintf(rx.template, 1, vars, 1), "", <<>>, 0, <<>>, values)
    ELSE LET v == rx.groups[k]
         IN  IF Len(Get(values, v)) = 0
             THEN Outcome(<<>>, "missing", v, required(rx), <<>>, values)
             ELSE revertFrom(rx, k + 1, Append(vars, take(Get(values, v))),
                             Put(values, v, rest(Get(values, v))))

Revert(rx, values) == revertFrom(rx, 1, <<>>, values)

\* Whether RevertValid accepts the string Revert produced.
acceptsAll(rx, reverse) == TRUE
accepts(rx, reverse) == MatchString(rx, reverse)

\* The bag as RevertValid leaves it when it rejects the string: as Revert
\* left it.
bagRestored(rv, values) == values
bagLeft(rv, values) == rv.values

RevertValid(rx, values) ==
    LET rv == Revert(rx, values)
    IN  IF rv.err # "" THEN [rv EXCEPT !.str = <<>>]
        ELSE IF ~accepts(rx, rv.str)
        THEN Outcome(<<>>, "mismatch", <<>>, 0, rv.str, bagLeft(rv, values))
        ELSE rv

---------------------------------------------------------------------------
(* The brace syntax "{name:pattern}" (gorillaPattern, braceIndices).        *)

\* Go's s[lo:hi], indices from 0.
Slice(s, lo, hi) == SubSeq(s, lo + 1, hi)

HasSuffix(s, c) == s # <<>> /\ s[Len(s)] = c

Scan(err, idxs) == [err |-> err, idxs |-> idxs]

\* The check after the scan: the braces must have closed.
braceEndUnchecked(level, idxs) == Scan(FALSE, idxs)
braceEnd(level, idxs) == IF level # 0 THEN Scan(TRUE, <<>>) ELSE Scan(FALSE, idxs)

\* The loop of braceIndices at position i.
RECURSIVE braceScan(_, _, _, _, _)
braceScan(s, i, level, idx, idxs) ==
    IF i >= Len(s) THEN braceEnd(level, idxs)
    ELSE CASE s[i + 1] = "{" ->
                braceScan(s, i + 1, level + 1,
                          IF level + 1 = 1 THEN i ELSE idx, idxs)
           [] s[i + 1] = "}" ->
                IF level - 1 = 0
                THEN braceScan(s, i + 1, 0, idx, idxs \o <<idx, i + 1>>)
                ELSE IF level - 1 < 0 THEN Scan(TRUE, <<>>)
                ELSE braceScan(s, i + 1, level - 1, idx, idxs)
           [] OTHER -> braceScan(s, i + 1, level, idx, idxs)

braceIndices(s) == braceScan(s, 0, 0, 0, <<>>)

\* regexp.QuoteMeta: a backslash before every metacharacter.
MetaChars == {"\\", ".", "+", "*", "?", "(", ")", "|", "[", "]", "{", "}", "^", "$"}
RECURSIVE QuoteMeta(_)
QuoteMeta(s) ==
    IF s = <<>> THEN <<>>
    ELSE (IF Head(s) \in MetaChars THEN <<"\\", Head(s)>> ELSE <<Head(s)>>)
         \o QuoteMeta(Tail(s))

\* strings.SplitN(s, ":", 2)
SplitN2(s) ==
    LET c == IndexFrom(s, ":", 1)
    IN  IF c = 0 THEN <<s>>
        ELSE <<SubSeq(s, 1, c - 1), SubSeq(s, c + 1, Len(s))>>

Translated(err, quoted, pattern) ==
    [err |-> err, quoted |-> quoted, pattern |-> pattern]

\* The loop over the regions idxs[i], idxs[i+1] (i from 0, in steps of 2),
\* `end` being where the previous region ended.
RECURSIVE gorillaRegions(_, _, _, _, _, _)
gorillaRegions(tpl, idxs, i, end, pattern, default) ==
    IF i >= Len(idxs) THEN [err |-> FALSE, quoted |-> <<>>, end |-> end,
                            pattern |-> pattern]
    ELSE LET raw == Slice(tpl, end, idxs[i + 1])
             end2 == idxs[i + 2]
             parts == SplitN2(Slice(tpl, idxs[i + 1] + 1, end2 - 1))
             name == parts[1]
             patt == IF Len(parts) = 2 THEN parts[2] ELSE default
         IN  IF name = <<>> \/ patt = <<>>
             THEN [err |-> TRUE, quoted |-> Slice(tpl, idxs[i + 1], end2),
                   end |-> end2, pattern |-> <<>>]
             ELSE gorillaRegions(tpl, idxs, i + 2, end2,
                                 pattern \o QuoteMeta(raw) \o Chars("(?P<")
                                 \o name \o <<">">> \o patt \o <<")">>,
                                 default)

\* The sub-pattern of a region that gives none.
defaultPatternPath(matchHost) == Chars("[^/]+")
defaultPattern(matchHost) ==
    IF matchHost THEN Chars("[^.]+") ELSE Chars("[^/]+")

\* prefixMatch and strictSlash as gorillaPattern goes on to use them.
prefixKept(matchHost, prefixMatch) == prefixMatch
prefixInEffect(matchHost, prefixMatch) ==
    IF matchHost THEN FALSE ELSE prefixMatch

strictKept(matchHost, prefixMatch, strictSlash) == strictSlash
strictInEffect(matchHost, prefixMatch, strictSlash) ==
    IF matchHost THEN FALSE
    ELSE IF prefixMatch THEN FALSE ELSE strictSlash

\* The template without the trailing slash that strictSlash drops.
trimNothing(tpl, strict) == tpl
trimSlash(tpl, strict) ==
    IF strict /\ HasSuffix(tpl, "/") THEN Slice(tpl, 0, Len(tpl) - 1) ELSE tpl

gorillaPattern(tpl, matchHost, prefixMatch, strictSlash) ==
    LET scan == braceIndices(tpl)
        prefix == prefixInEffect(matchHost, prefixMatch)
        strict == strictInEffect(matchHost, prefixMatch, strictSlash)
        tpl2 == trimSlash(tpl, strict)
        body == gorillaRegions(tpl2, scan.idxs, 0, 0, <<"^">>,
                               defaultPattern(matchHost))
    IN  IF scan.err THEN Translated("unbalanced", tpl, <<>>)
        ELSE IF body.err THEN Translated("malformed", body.quoted, <<>>)
        ELSE Translated("", <<>>,
                 body.pattern \o QuoteMeta(Slice(tpl2, body.end, Len(tpl2)))
                 \o (IF strict THEN Chars("[/]?") ELSE <<>>)
                 \o (IF ~prefix THEN <<"$">> ELSE <<>>))

---------------------------------------------------------------------------
(* Bounds and inputs.                                                      *)

\* The longest pattern, in pieces.
MaxPieces == 2
\* The longest candidate string handed to Values.
MaxStrLen == 2
\* The most values a caller's bag holds per key.
MaxBagLen == 2
\* The longest brace template, in pieces.
MaxTplPieces == 3
\* The most patterns one bag is reverted against in turn.
MaxChain == 2

\* All sequences over S of length up to n.
RECURSIVE SeqsUpTo(_, _)
SeqsUpTo(S, n) ==
    IF n = 0 THEN {<<>>}
    ELSE LET shorter == SeqsUpTo(S, n - 1)
         IN  shorter \cup {Append(q, c) : q \in shorter, c \in S}

\* All concatenations of up to n of the pieces P.
RECURSIVE Joined(_, _)
Joined(P, n) ==
    IF n = 0 THEN {<<>>}
    ELSE LET shorter == Joined(P, n - 1)
         IN  shorter \cup {q \o c : q \in shorter, c \in P}

\* What patterns are built of: literals (one of them '%'), a class outside
\* any group, positional and named groups, a group nested in a group, and
\* groups under a repetition.
Pieces ==
    {Chars("1"), Chars("%"), Chars("\\d"), Chars("(\\d)"),
     Chars("(?P<foo>\\d)"), Chars("(\\d(a))"), Chars("((a)*)"), Chars("(a)*")}

Anchored(body) == <<"^">> \o body \o <<"$">>
Patterns ==
    Joined(Pieces, MaxPieces) \cup {Anchored(b) : b \in Joined(Pieces, MaxPieces)}

Strings == SeqsUpTo({"1", "2", "a", "%"}, MaxStrLen)

\* The bags a caller builds: positional values that are or are not digits,
\* and digits for the key "foo".
Keys == {<<>>, Chars("foo")}
ValuesFor(key) == IF key = <<>> THEN {<<"1">>, <<"a">>} ELSE {<<"2">>}
Bags ==
    {MakeValues(m) :
        m \in {f \in [Keys -> SeqsUpTo({<<"1">>, <<"a">>, <<"2">>}, MaxBagLen)] :
                  \A k \in Keys : \A j \in 1..Len(f[k]) : f[k][j] \in ValuesFor(k)}}

\* What brace templates are built of.
TplPieces ==
    {Chars("/"), Chars("."), Chars("a"), Chars(":"), Chars("{"), Chars("}"),
     Chars("{a}"), Chars("{a:}"), Chars("{b:\\d}"), Chars("{b:a)(a}")}
Templates == Joined(TplPieces, MaxTplPieces)

---------------------------------------------------------------------------
(* The state: one compiled pattern, the caller's bag, and the last call.   *)

VARIABLES
    phase,      \* "new", "failed" (the constructor returned an error), "ready"
    pattern,    \* the regexp source handed to CompileRegexp
    tr,         \* the brace template translated, if any, and what came of it
    r,          \* the *Regexp
    values,     \* the url.Values the caller holds
    origin,     \* the string whose Values result `values` still is, if any
    call,       \* the last call on r: its arguments and what it returned
    procs,      \* concurrent callers of r: where each stands in its call
    chain       \* several compiled patterns, and the reverts of one bag
                \* against them in turn

vars == <<phase, pattern, tr, r, values, origin, call, procs, chain>>

NoOrigin == [set |-> FALSE, s |-> <<>>]
NoTranslation ==
    [kind |-> "none", tpl |-> <<>>, matchHost |-> FALSE,
     prefixMatch |-> FALSE, strictSlash |-> FALSE, err |-> "",
     quoted |-> <<>>, scan |-> Scan(FALSE, <<>>)]
NoCall ==
    [op |-> "none", s |-> <<>>, arg |-> NilValues, from |-> NoOrigin,
     out |-> Outcome(<<>>, "", <<>>, 0, <<>>, NilValues)]

\* The callers that share r, each with a bag of its own.
Callers == {1, 2}
Idle ==
    [pc |-> "idle", op |-> "none", s |-> <<>>, arg |-> NilValues,
     bag |-> NilValues, k |-> 0, vars |-> <<>>,
     out |-> Outcome(<<>>, "", <<>>, 0, <<>>, NilValues)]

NoChain == [rs |-> <<>>, done |-> <<>>]

Init ==
    /\ phase = "new"
    /\ pattern = <<>>
    /\ tr = NoTranslation
    /\ r = NoRegexp
    /\ values = NilValues
    /\ origin = NoOrigin
    /\ call = NoCall
    /\ procs = [c \in Callers |-> Idle]
    /\ chain = NoChain

\* CompileRegexp(p)
Compile(p) ==
    /\ phase = "new"
    /\ pattern' = p
    /\ r' = CompileRegexp(p)
    /\ phase' = IF r'.ok THEN "ready" ELSE "failed"
    /\ UNCHANGED <<tr, values, origin, call, procs, chain>>

\* NewGorillaHost, NewGorillaPath, NewGorillaPathPrefix: gorillaPattern,
\* then CompileRegexp of what it returned.
NewGorilla(kind, tpl, matchHost, prefixMatch, strictSlash) ==
    LET g == gorillaPattern(tpl, matchHost, prefixMatch, strictSlash)
    IN  /\ phase = "new"
        /\ tr' = [kind |-> kind, tpl |-> tpl, matchHost |-> matchHost,
                  prefixMatch |-> prefixMatch, strictSlash |-> strictSlash,
                  err |-> g.err, quoted |-> g.quoted,
                  scan |-> braceIndices(tpl)]
        /\ pattern' = g.pattern
        /\ r' = IF g.err = "" THEN CompileRegexp(g.pattern) ELSE NoRegexp
        /\ phase' = IF r'.ok THEN "ready" ELSE "failed"
        /\ UNCHANGED <<values, origin, call, procs, chain>>

NewGorillaHost == \E tpl \in Templates : NewGorilla("host", tpl, TRUE, FALSE, FALSE)
NewGorillaPath ==
    \E tpl \in Templates, strictSlash \in BOOLEAN :
        NewGorilla("path", tpl, FALSE, FALSE, strictSlash)
NewGorillaPathPrefix ==
    \E tpl \in Templates : NewGorilla("prefix", tpl, FALSE, TRUE, FALSE)

\* r.Values(s): the caller now holds the returned bag.
DoValues ==
    \E s \in Strings :
        /\ phase = "ready"
        /\ call.op = "none"
        /\ values' = Values(r, s)
        /\ origin' = [set |-> ~values'.nil, s |-> s]
        /\ call' = [NoCall EXCEPT !.op = "Values", !.s = s]
        /\ UNCHANGED <<phase, pattern, tr, r, procs, chain>>

\* The bag a caller passes: one it builds for its first call, afterwards
\* the one it holds (what Values returned, or what a Revert left of it).
Arguments ==
    IF call.op = "none"
    THEN {[bag |-> b, from |-> NoOrigin] : b \in Bags}
    ELSE {[bag |-> values, from |-> origin]}

\* r.Revert(bag): the bag is modified in place.
DoRevert ==
    \E a \in Arguments :
        /\ phase = "ready"
        /\ call' = [op |-> "Revert", s |-> <<>>, arg |-> a.bag,
                    from |-> a.from, out |-> Revert(r, a.bag)]
        /\ values' = call'.out.values
        /\ origin' = NoOrigin
        /\ UNCHANGED <<phase, pattern, tr, r, procs, chain>>

\* r.RevertValid(bag)
DoRevertValid ==
    \E a \in Arguments :
        /\ phase = "ready"
        /\ call' = [op |-> "RevertValid", s |-> <<>>, arg |-> a.bag,
                    from |-> a.from, out |-> RevertValid(r, a.bag)]
        /\ values' = call'.out.values
        /\ origin' = NoOrigin
        /\ UNCHANGED <<phase, pattern, tr, r, procs, chain>>

\* A pattern written as a regular expression, and its use.
Next ==
    \/ \E p \in Patterns : Compile(p)
    \/ DoValues
    \/ DoRevert
    \/ DoRevertValid

Spec == Init /\ [][Next]_vars

\* A pattern written in the brace syntax.
NextBrace ==
    \/ NewGorillaHost
    \/ NewGorillaPath
    \/ NewGorillaPathPrefix

SpecBrace == Init /\ [][NextBrace]_vars

\* gorillaPattern on its own: the arguments of a call, any template with
\* any choice of the three flags, and then the call.
InitPattern ==
    /\ phase = "new"
    /\ pattern = <<>>
    /\ \E tpl \in Templates, matchHost \in BOOLEAN, prefixMatch \in BOOLEAN,
          strictSlash \in BOOLEAN :
           tr = [NoTranslation EXCEPT !.kind = "arguments", !.tpl = tpl,
                                      !.matchHost = matchHost,
                                      !.prefixMatch = prefixMatch,
                                      !.strictSlash = strictSlash]
    /\ r = NoRegexp
    /\ values = NilValues
    /\ origin = NoOrigin
    /\ call = NoCall
    /\ procs = [c \in Callers |-> Idle]
    /\ chain = NoChain

GorillaPattern ==
    LET g == gorillaPattern(tr.tpl, tr.matchHost, tr.prefixMatch,
                            tr.strictSlash)
    IN  /\ phase = "new"
        /\ tr.kind = "arguments"
        /\ tr' = [tr EXCEPT !.kind = "pattern", !.err = g.err,
                            !.quoted = g.quoted,
                            !.scan = braceIndices(tr.tpl)]
        /\ pattern' = g.pattern
        /\ phase' = IF g.err = "" THEN "translated" ELSE "failed"
        /\ UNCHANGED <<r, values, origin, call, procs, chain>>

NextPattern == GorillaPattern

SpecPattern == InitPattern /\ [][NextPattern]_vars

\* Two callers on one compiled pattern, each call taken a step at a time:
\* the loop of Revert one group per step, then the rendering, then the
\* match of RevertValid.
ConcPatterns ==
    {Chars("(\\d)(?P<foo>\\d)"), Chars("^%(\\d(a))$")}

\* What each caller calls.
OpsOf(c) == IF c = 1 THEN {"Revert", "RevertValid"} ELSE {"Revert"}
Readers == {2}

\* Whose `vars` slice a call of Revert fills: its own.
varsShared(c) == 1
varsOf(c) == c

Finished(p, out) == [p EXCEPT !.pc = "done", !.out = out]

\* r.Revert(bag) or r.RevertValid(bag) is entered: vars is made.
Begin(c) ==
    \E op \in OpsOf(c), b \in Bags :
        /\ phase = "ready"
        /\ procs[c].pc = "idle"
        /\ procs' = [procs EXCEPT
                        ![c] = [Idle EXCEPT !.pc = "loop", !.op = op,
                                            !.arg = b, !.bag = b, !.k = 1],
                        ![varsOf(c)].vars = <<>>]
        /\ UNCHANGED <<phase, pattern, tr, r, values, origin, call, chain>>

\* One turn of the loop over r.groups.
LoopStep(c) ==
    LET p == procs[c]
        v == r.groups[p.k]
    IN  /\ p.pc = "loop"
        /\ p.k <= Len(r.groups)
        /\ procs' =
              IF Len(Get(p.bag, v)) = 0
              THEN [procs EXCEPT ![c] =
                       Finished(p, Outcome(<<>>, "missing", v, required(r),
                                           <<>>, p.bag))]
              ELSE [procs EXCEPT
                       ![c].k = p.k + 1,
                       ![c].bag = Put(p.bag, v, rest(Get(p.bag, v))),
                       ![varsOf(c)].vars = Append(@, take(Get(p.bag, v)))]
        /\ UNCHANGED <<phase, pattern, tr, r, values, origin, call, chain>>

\* fmt.Sprintf(r.template, vars...) after the loop.
Render(c) ==
    LET p == procs[c]
        str == Sprintf(r.template, 1, procs[varsOf(c)].vars, 1)
    IN  /\ p.pc = "loop"
        /\ p.k > Len(r.groups)
        /\ procs' =
              IF p.op = "Revert"
              THEN [procs EXCEPT ![c] =
                       Finished(p, Outcome(str, "", <<>>, 0, <<>>, p.bag))]
              ELSE [procs EXCEPT ![c].pc = "check", ![c].out.str = str]
        /\ UNCHANGED <<phase, pattern, tr, r, values, origin, call, chain>>

\* RevertValid: r.compiled.MatchString(reverse)
Check(c) ==
    LET p == procs[c]
    IN  /\ p.pc = "check"
        /\ procs' = [procs EXCEPT ![c] =
              Finished(p, IF accepts(r, p.out.str)
                          THEN Outcome(p.out.str, "", <<>>, 0, <<>>, p.bag)
                          ELSE Outcome(<<>>, "mismatch", <<>>, 0, p.out.str,
                                       p.bag))]
        /\ UNCHANGED <<phase, pattern, tr, r, values, origin, call, chain>>

\* r.Values(s), which builds a bag of its own.
CallValues(c) ==
    \E s \in Strings :
        /\ phase = "ready"
        /\ procs[c].pc = "idle"
        /\ procs' = [procs EXCEPT ![c] =
              [Idle EXCEPT !.pc = "done", !.op = "Values", !.s = s,
                           !.bag = Values(r, s),
                           !.out.values = Values(r, s)]]
        /\ UNCHANGED <<phase, pattern, tr, r, values, origin, call, chain>>

\* r.Template()
CallTemplate(c) ==
    /\ phase = "ready"
    /\ procs[c].pc = "idle"
    /\ procs' = [procs EXCEPT ![c] =
          [Idle EXCEPT !.pc = "done", !.op = "Template",
                       !.out.str = Template(r)]]
    /\ UNCHANGED <<phase, pattern, tr, r, values, origin, call, chain>>

NextConc ==
    \/ \E p \in ConcPatterns : Compile(p)
    \/ \E c \in Callers : Begin(c)
    \/ \E c \in Callers : LoopStep(c)
    \/ \E c \in Callers : Render(c)
    \/ \E c \in Callers : Check(c)
    \/ \E c \in Readers : CallValues(c)
    \/ \E c \in Readers : CallTemplate(c)

SpecConc == Init /\ [][NextConc]_vars

\* One bag reverted against several compiled patterns in turn, as a URL
\* is built of a host and a path.
ChainPatterns ==
    {Chars("(\\d)"), Chars("(?P<foo>\\d)"), Chars("(\\d)(?P<foo>\\d)"),
     Chars("^(\\d)%(\\d)$"), Chars("1(\\d(a))")}

\* CompileRegexp(p), for one more pattern of the chain.
ChainCompile(p) ==
    /\ phase \in {"new", "chain"}
    /\ Len(chain.rs) < MaxChain
    /\ chain.done = <<>>
    /\ chain' = IF CompileRegexp(p).ok
                THEN [chain EXCEPT !.rs = Append(@, CompileRegexp(p))]
                ELSE chain
    /\ phase' = IF CompileRegexp(p).ok THEN "chain" ELSE "failed"
    /\ UNCHANGED <<pattern, tr, r, values, origin, call, procs>>

Reverting(op, rx, bag) ==
    IF op = "Revert" THEN Revert(rx, bag) ELSE RevertValid(rx, bag)

\* Revert or RevertValid of the next pattern, on a bag the caller has built
\* or, after the first, on the bag as the last call left it.
ChainRevert ==
    \E op \in {"Revert", "RevertValid"},
       b \in IF chain.done = <<>> THEN Bags ELSE {values} :
        /\ phase = "chain"
        /\ Len(chain.done) < Len(chain.rs)
        /\ chain' = [chain EXCEPT !.done =
              Append(@, [op |-> op, arg |-> b,
                         out |-> Reverting(op, chain.rs[Len(chain.done) + 1], b)])]
        /\ values' = chain'.done[Len(chain'.done)].out.values
        /\ UNCHANGED <<phase, pattern, tr, r, origin, call, procs>>

NextChain ==
    \/ \E p \in ChainPatterns : ChainCompile(p)
    \/ ChainRevert

SpecChain == Init /\ [][NextChain]_vars

---------------------------------------------------------------------------
(* What the claims speak of.                                               *)

\* The top-level items of a pattern.
Items(re) == IF re.op = "Concat" THEN re.sub ELSE <<re>>

\* The capturing groups not contained in another capturing group, in
\* order, whatever operator they stand under: their names and numbers.
RECURSIVE Outermost(_), OutermostOf(_, _)
Outermost(re) ==
    IF re.op = "Capture" THEN <<[name |-> re.name, cap |-> re.cap]>>
    ELSE OutermostOf(re.sub, 1)
OutermostOf(subs, k) ==
    IF k > Len(subs) THEN <<>>
    ELSE Outermost(subs[k]) \o OutermostOf(subs, k + 1)

\* The capturing groups the walk lists (those it reaches through
\* concatenations alone), with the number the matcher gives each.
RECURSIVE Listed(_), ListedOf(_, _)
Listed(re) ==
    CASE re.op = "Capture" -> <<[name |-> re.name, cap |-> re.cap]>>
      [] re.op = "Concat" -> ListedOf(re.sub, 1)
      [] OTHER -> <<>>
ListedOf(subs, k) ==
    IF k > Len(subs) THEN <<>>
    ELSE Listed(subs[k]) \o ListedOf(subs, k + 1)

\* Whether a capturing group stands under a repetition or an alternation.
RECURSIVE HidesCapture(_, _)
HidesCapture(re, under) ==
    CASE re.op = "Capture" -> under \/ HidesCapture(re.sub[1], under)
      [] re.op = "Concat" ->
           \E k \in 1..Len(re.sub) : HidesCapture(re.sub[k], under)
      [] re.op \in {"Alternate", "Star", "Plus", "Quest"} ->
           \E k \in 1..Len(re.sub) : HidesCapture(re.sub[k], TRUE)
      [] OTHER -> FALSE

\* A pattern that is ^, then only literal text and capturing groups, then
\* $, with no capturing group under a repetition or an alternation.
LiteralsAndGroups(re) ==
    LET items == Items(re)
    IN  /\ Len(items) >= 2
        /\ items[1].op = "BeginText"
        /\ items[Len(items)].op = "EndText"
        /\ \A k \in 2..(Len(items) - 1) :
              \/ items[k].op = "Literal"
              \/ items[k].op = "Capture" /\ ~HidesCapture(items[k], FALSE)

\* The number of placeholders of a template: "%s" outside "%%".
RECURSIVE Placeholders(_, _)
Placeholders(template, i) ==
    IF i >= Len(template) THEN 0
    ELSE IF template[i] # "%" THEN Placeholders(template, i + 1)
    ELSE (IF template[i + 1] = "s" THEN 1 ELSE 0)
         + Placeholders(template, i + 2)

\* How many of the first k groups carry the key.
Carrying(groups, k, key) == Cardinality({j \in 1..k : groups[j] = key})

AllKeys(rx, bag) == DOMAIN bag.m \cup {rx.groups[k] : k \in 1..Len(rx.groups)}

\* The top level of a pattern as the segments of a template: the runes of
\* its literals, and a placeholder for each capturing group.
Rune(c) == [placeholder |-> FALSE, c |-> c]
Placeholder == [placeholder |-> TRUE, c |-> ""]
RECURSIVE Segments(_, _)
Segments(items, k) ==
    IF k > Len(items) THEN <<>>
    ELSE (CASE items[k].op = "Literal" ->
                 [j \in 1..Len(items[k].rune) |-> Rune(items[k].rune[j])]
            [] items[k].op = "Capture" -> <<Placeholder>>
            [] items[k].op = "Concat" -> Segments(items[k].sub, 1)
            [] OTHER -> <<>>)
         \o Segments(items, k + 1)

\* The segments segs[k..] with the i-th placeholder filled by the value the
\* bag holds for the i-th group: the j-th value of its key, when the group
\* is the j-th one carrying the key.
RECURSIVE Filled(_, _, _, _, _)
Filled(segs, k, i, groups, bag) ==
    IF k > Len(segs) THEN <<>>
    ELSE IF segs[k].placeholder
    THEN Get(bag, groups[i])[Carrying(groups, i, groups[i])]
         \o Filled(segs, k + 1, i + 1, groups, bag)
    ELSE <<segs[k].c>> \o Filled(segs, k + 1, i, groups, bag)

\* vs without its first n values.
Drop(vs, n) == SubSeq(vs, n + 1, Len(vs))

\* The values of vals[k..] whose group carries the key.
RECURSIVE Under(_, _, _, _)
Under(groups, vals, key, k) ==
    IF k > Len(groups) THEN <<>>
    ELSE (IF groups[k] = key THEN <<vals[k]>> ELSE <<>>)
         \o Under(groups, vals, key, k + 1)

\* The first group that finds its key exhausted in the bag, 0 if none does.
FirstExhausted(groups, bag) ==
    LET short == {k \in 1..Len(groups) :
                    Carrying(groups, k, groups[k]) > Len(Get(bag, groups[k]))}
    IN  IF short = {} THEN 0
        ELSE CHOOSE k \in short : \A j \in short : k <= j

---------------------------------------------------------------------------
(* The claims.                                                             *)

Reverted == call.op = "Revert"
RoundTrip == Reverted /\ call.from.set

\* C1 as stated: for any pattern that compiles and any string s it matches,
\* Revert of the bag Values(s) returned, unmodified, succeeds and returns s.
C1_RoundTrip ==
    RoundTrip => call.out.err = "" /\ call.out.str = call.from.s

\* C1 amended: Revert of the bag Values(s) returned always succeeds; it
\* returns exactly s when the pattern is ^, then only literal text and
\* capturing groups, then $, with no capturing group under a repetition or
\* an alternation.
C1_RoundTripLiteralsAndGroups ==
    RoundTrip =>
        /\ call.out.err = ""
        /\ LiteralsAndGroups(r.re) => call.out.str = call.from.s

C1_Witness ==
    /\ RoundTrip
    /\ LiteralsAndGroups(r.re)
    /\ Len(Groups(r)) = 2
    /\ call.from.s = <<"1", "2">>
    /\ call.out.str = <<"1", "2">>

\* C2: RevertValid succeeds exactly when Revert succeeds with a string the
\* pattern matches, and then returns that string; when Revert succeeds with
\* a string the pattern does not match, RevertValid fails with a mismatch
\* error and returns no string.  Every string it returns is matched.
C2_RevertValid ==
    call.op = "RevertValid" =>
        LET rv == Revert(r, call.arg)
        IN  /\ call.out.err = "" <=> (rv.err = "" /\ MatchString(r, rv.str))
            /\ call.out.err = "" =>
                  call.out.str = rv.str /\ MatchString(r, call.out.str)
            /\ (rv.err = "" /\ ~MatchString(r, rv.str)) =>
                  /\ call.out.err = "mismatch"
                  /\ call.out.str = <<>>
                  /\ call.out.bad = rv.str

C2_Witness ==
    /\ call.op = "RevertValid"
    /\ pattern = Chars("^1(\\d)$")
    /\ Get(call.arg, <<>>) = <<<<"a">>>>
    /\ call.out.err = "mismatch"
    /\ call.out.bad = <<"1", "a">>
    /\ Revert(r, call.arg).str = <<"1", "a">>

\* C3: for every pattern that compiles, Groups() holds exactly one entry,
\* the group's name, for each capturing group not contained in another
\* capturing group, in order, and the template one placeholder for each.
C3_OutermostGroups ==
    phase = "ready" =>
        /\ Groups(r) = [k \in 1..Len(Outermost(r.re)) |-> Outermost(r.re)[k].name]
        /\ Placeholders(Template(r), 1) = Len(Outermost(r.re))

\* C4: for every pattern that compiles, the index recorded for each listed
\* group is the number the matcher gives that group (every capturing
\* group, nested or not, counted in order of its opening).
C4_Indices ==
    phase = "ready" =>
        \A k \in 1..Len(Indices(r)) : Indices(r)[k] = Listed(r.re)[k].cap

\* C5: a successful Revert returns the literal text of the pattern's top
\* level, each rune once (a '%' too) and in order, with the i-th
\* placeholder replaced by the value taken for the i-th group of Groups():
\* the j-th value of the group's key when the group is the j-th one
\* carrying that key.
C5_Rendered ==
    (Reverted /\ call.out.err = "") =>
        call.out.str = Filled(Segments(Items(r.re), 1), 1, 1, Groups(r), call.arg)

C5_Witness ==
    /\ Reverted
    /\ pattern = Chars("%(\\d)")
    /\ Get(call.arg, <<>>) = <<<<"1">>, <<"a">>>>
    /\ Template(r) = Chars("%%%s")
    /\ call.out.str = <<"%", "1">>

\* C6: after a successful Revert the bag's list for every key is its list
\* before the call without its first n values, n being the number of groups
\* of Groups() carrying the key; no key is added or removed.
C6_Consumed ==
    (Reverted /\ call.out.err = "") =>
        /\ DOMAIN call.out.values.m = DOMAIN call.arg.m
        /\ \A key \in AllKeys(r, call.arg) :
              Get(call.out.values, key)
                  = Drop(Get(call.arg, key),
                         Carrying(Groups(r), Len(Groups(r)), key))

C6_Witness ==
    /\ Reverted
    /\ pattern = Chars("1(\\d(a))")
    /\ Get(call.arg, <<>>) = <<<<"1">>, <<"a">>>>
    /\ call.out.str = <<"1", "1">>
    /\ Get(values, <<>>) = <<<<"a">>>>

\* C7: Revert fails, with a missing-variable error and no other, exactly
\* when for some key the bag holds fewer values than Groups() has groups
\* carrying the key; the error names the key of the first group that finds
\* its key exhausted and the number of groups of Groups(), and the string
\* returned with it is empty.
C7_Missing ==
    Reverted =>
        /\ call.out.err \in {"", "missing"}
        /\ call.out.err = "missing" <=>
              \E key \in AllKeys(r, call.arg) :
                  Len(Get(call.arg, key))
                      < Carrying(Groups(r), Len(Groups(r)), key)
        /\ call.out.err = "missing" =>
              /\ FirstExhausted(Groups(r), call.arg) # 0
              /\ call.out.key = Groups(r)[FirstExhausted(Groups(r), call.arg)]
              /\ call.out.total = Len(Groups(r))
              /\ call.out.str = <<>>

C7_Witness ==
    /\ Reverted
    /\ pattern = Chars("(\\d(a))(?P<foo>\\d)")
    /\ Get(call.arg, <<>>) = <<<<"1">>, <<"a">>>>
    /\ Get(call.arg, Chars("foo")) = <<>>
    /\ call.out.err = "missing"
    /\ call.out.key = Chars("foo")
    /\ call.out.total = 2

\* C8: Values(s) returns nil exactly when the pattern does not match s;
\* when it matches, the bag holds under each key the submatches at the
\* recorded indices of the groups of Groups() carrying the key, in group
\* order, and no other key.
C8_Values ==
    call.op = "Values" =>
        LET match == FindStringSubmatch(r.re, r.n, call.s)
            vals == [k \in 1..Len(Groups(r)) |-> match[Indices(r)[k] + 1]]
        IN  /\ values.nil <=> ~MatchString(r, call.s)
            /\ ~values.nil =>
                  /\ DOMAIN values.m = {Groups(r)[k] : k \in 1..Len(Groups(r))}
                  /\ \A key \in DOMAIN values.m :
                        values.m[key] = Under(Groups(r), vals, key, 1)

C8_Witness ==
    /\ call.op = "Values"
    /\ pattern = Chars("^(?P<foo>\\d)(\\d)$")
    /\ call.s = <<"1", "2">>
    /\ values = MakeValues((<<>> :> <<<<"2">>>>) @@ (Chars("foo") :> <<<<"1">>>>))

\* The depth of braces after the first i characters of s.
Depth(s, i) ==
    Cardinality({j \in 1..i : s[j] = "{"}) - Cardinality({j \in 1..i : s[j] = "}"})

Unbalanced(s) ==
    \/ \E i \in 1..Len(s) : Depth(s, i) < 0
    \/ Depth(s, Len(s)) # 0

\* Where the depth goes from 0 to 1, and where it comes back to 0.
Opens(s) == {i \in 1..Len(s) : s[i] = "{" /\ Depth(s, i) = 1}
Closes(s) == {i \in 1..Len(s) : s[i] = "}" /\ Depth(s, i) = 0}

\* The j-th smallest member of S.
Nth(S, j) == CHOOSE x \in S : Cardinality({y \in S : y < x}) = j - 1

\* The name of the j-th region of a template: what stands before its
\* first colon.
RegionName(tpl, idxs, j) ==
    SplitN2(Slice(tpl, idxs[2 * j - 1] + 1, idxs[2 * j] - 1))[1]

FromTemplate == tr.kind # "none"

\* C9: for every brace template the translator accepts and whose output
\* compiles, Groups() is the list of the names of the template's top-level
\* regions, in region order.
C9_Regions ==
    (FromTemplate /\ phase = "ready") =>
        Groups(r) = [j \in 1..(Len(tr.scan.idxs) \div 2) |->
                        RegionName(tr.tpl, tr.scan.idxs, j)]

\* C10: brace scanning fails, with the unbalanced-braces error, exactly
\* when the depth of braces goes negative somewhere or is not zero at the
\* end; otherwise it returns, in order, one pair per top-level region: the
\* position (from 0) of the '{' that raised the depth from 0 to 1 and one
\* past the '}' that brought it back to 0; the regions do not overlap.
C10_Braces ==
    FromTemplate =>
        /\ tr.scan.err <=> Unbalanced(tr.tpl)
        /\ tr.scan.err =>
              tr.scan.idxs = <<>> /\ tr.err = "unbalanced" /\ phase = "failed"
        /\ ~tr.scan.err =>
              /\ Cardinality(Opens(tr.tpl)) = Cardinality(Closes(tr.tpl))
              /\ Len(tr.scan.idxs) = 2 * Cardinality(Opens(tr.tpl))
              /\ \A j \in 1..Cardinality(Opens(tr.tpl)) :
                    /\ tr.scan.idxs[2 * j - 1] = Nth(Opens(tr.tpl), j) - 1
                    /\ tr.scan.idxs[2 * j] = Nth(Closes(tr.tpl), j)
                    /\ tr.scan.idxs[2 * j - 1] < tr.scan.idxs[2 * j]
                    /\ j > 1 => tr.scan.idxs[2 * j - 2] <= tr.scan.idxs[2 * j - 1]

C10_Witness ==
    /\ FromTemplate
    /\ tr.tpl = Chars("{{}")
    /\ tr.scan.err
    /\ tr.err = "unbalanced"

\* The number of top-level regions of the template translated.
Regions == Len(tr.scan.idxs) \div 2

\* What stands between the braces of the j-th region.
RegionContent(tpl, idxs, j) == Slice(tpl, idxs[2 * j - 1] + 1, idxs[2 * j] - 1)

\* Where the first colon of c stands, 0 if it has none.
FirstColon(c) ==
    IF \E i \in 1..Len(c) : c[i] = ":"
    THEN CHOOSE i \in 1..Len(c) : c[i] = ":" /\ \A j \in 1..(i - 1) : c[j] # ":"
    ELSE 0

NameOf(c) == IF FirstColon(c) = 0 THEN c ELSE SubSeq(c, 1, FirstColon(c) - 1)

SubPatternOf(c, host) ==
    IF FirstColon(c) = 0
    THEN (IF host THEN Chars("[^.]+") ELSE Chars("[^/]+"))
    ELSE SubSeq(c, FirstColon(c) + 1, Len(c))

\* A region with an empty name, or with a sub-pattern given but empty.
Malformed(c) ==
    \/ NameOf(c) = <<>>
    \/ FirstColon(c) # 0 /\ FirstColon(c) = Len(c)

\* The regex source of regions j.. with the quoted text before each.
RECURSIVE Assembled(_, _, _, _)
Assembled(tpl, idxs, j, host) ==
    IF 2 * j > Len(idxs) THEN <<>>
    ELSE QuoteMeta(Slice(tpl, IF j = 1 THEN 0 ELSE idxs[2 * j - 2],
                         idxs[2 * j - 1]))
         \o Chars("(?P<") \o NameOf(RegionContent(tpl, idxs, j)) \o <<">">>
         \o SubPatternOf(RegionContent(tpl, idxs, j), host) \o <<")">>
         \o Assembled(tpl, idxs, j + 1, host)

StartsWith(s, prefix) ==
    Len(prefix) <= Len(s) /\ SubSeq(s, 1, Len(prefix)) = prefix

EndsWith(s, suffix) ==
    Len(suffix) <= Len(s)
    /\ SubSeq(s, Len(s) - Len(suffix) + 1, Len(s)) = suffix

\* C11: each top-level region is split at its first ':' into name and
\* sub-pattern and becomes (?P<name>sub-pattern), the sub-pattern being
\* [^/]+ (path, path prefix) or [^.]+ (host) when there is no ':';
\* translation fails, quoting the first offending region and returning no
\* regex source, exactly when a region has an empty name or a sub-pattern
\* that is present but empty.
C11_Regions ==
    (FromTemplate /\ ~tr.scan.err) =>
        /\ tr.err \in {"", "malformed"}
        /\ tr.err = "malformed" <=>
              \E j \in 1..Regions :
                  Malformed(RegionContent(tr.tpl, tr.scan.idxs, j))
        /\ tr.err = "malformed" =>
              /\ pattern = <<>>
              /\ phase = "failed"
              /\ \E j \in 1..Regions :
                    /\ Malformed(RegionContent(tr.tpl, tr.scan.idxs, j))
                    /\ \A k \in 1..(j - 1) :
                          ~Malformed(RegionContent(tr.tpl, tr.scan.idxs, k))
                    /\ tr.quoted = Slice(tr.tpl, tr.scan.idxs[2 * j - 1],
                                         tr.scan.idxs[2 * j])
        /\ tr.err = "" =>
              StartsWith(pattern,
                         <<"^">> \o Assembled(tr.tpl, tr.scan.idxs, 1, tr.matchHost))

C11_Witness ==
    /\ FromTemplate
    /\ tr.kind = "host"
    /\ tr.tpl = Chars("{a}.{a:}")
    /\ tr.err = "malformed"
    /\ tr.quoted = Chars("{a:}")
    /\ pattern = <<>>

\* C12: in path mode with strictSlash on, an accepted template T that does
\* not end in '/' and T followed by "/" translate to the same regex
\* source, which ends in "[/]?$"; the pattern compiled from a template of
\* literal text alone matches that text with and without a trailing slash.
C12_StrictSlash ==
    (/\ FromTemplate
     /\ tr.kind = "path"
     /\ tr.strictSlash
     /\ tr.err = ""
     /\ ~HasSuffix(tr.tpl, "/")) =>
        /\ gorillaPattern(tr.tpl \o <<"/">>, FALSE, FALSE, TRUE)
              = Translated("", <<>>, pattern)
        /\ EndsWith(pattern, Chars("[/]?$"))
        /\ Regions = 0 =>
              /\ phase = "ready"
              /\ MatchString(r, tr.tpl)
              /\ MatchString(r, tr.tpl \o <<"/">>)

C12_Witness ==
    /\ FromTemplate
    /\ tr.kind = "path"
    /\ tr.strictSlash
    /\ tr.tpl = Chars("/a")
    /\ pattern = Chars("^/a[/]?$")
    /\ gorillaPattern(Chars("/a/"), FALSE, FALSE, TRUE).pattern = pattern
    /\ MatchString(r, Chars("/a"))
    /\ MatchString(r, Chars("/a/"))
    /\ ~MatchString(r, Chars("/a//"))

\* Where the last region of a template ends, 0 if it has no region.
LastEnd(idxs) == IF idxs = <<>> THEN 0 ELSE idxs[Len(idxs)]

\* The regex source of an accepted template: '^', the regions and the
\* quoted text around them, "[/]?" if strict, '$' unless prefix; the
\* template loses a trailing '/' first if strict.
Source(tpl, idxs, host, prefix, strict) ==
    LET cut == IF strict /\ tpl # <<>> /\ tpl[Len(tpl)] = "/"
               THEN SubSeq(tpl, 1, Len(tpl) - 1) ELSE tpl
    IN  <<"^">> \o Assembled(cut, idxs, 1, host)
        \o QuoteMeta(Slice(cut, LastEnd(idxs), Len(cut)))
        \o (IF strict THEN Chars("[/]?") ELSE <<>>)
        \o (IF prefix THEN <<>> ELSE <<"$">>)

Translation == tr.kind = "pattern"

\* C13: the output for an accepted template starts with '^' and has the
\* end anchor '$' exactly when prefix matching is not in effect; host mode
\* puts prefix matching and strict slash off, prefix matching puts strict
\* slash off; the trailing '/' is dropped and "[/]?" appended only in path
\* mode (no host, no prefix) with strictSlash on.
C13_Anchors ==
    (Translation /\ tr.err = "") =>
        /\ pattern[1] = "^"
        /\ pattern = Source(tr.tpl, tr.scan.idxs, tr.matchHost,
                            ~tr.matchHost /\ tr.prefixMatch,
                            ~tr.matchHost /\ ~tr.prefixMatch /\ tr.strictSlash)
        /\ tr.matchHost =>
              pattern = gorillaPattern(tr.tpl, TRUE, FALSE, FALSE).pattern
        /\ (~tr.matchHost /\ tr.prefixMatch) =>
              pattern = gorillaPattern(tr.tpl, FALSE, TRUE, FALSE).pattern

C13_Witness ==
    /\ Translation
    /\ tr.matchHost
    /\ tr.prefixMatch
    /\ tr.strictSlash
    /\ tr.tpl = Chars("a/")
    /\ pattern = Chars("^a/$")

\* What a finished call of caller c would have returned, and left of its
\* bag, had it run alone.
Alone(p) ==
    CASE p.op = "Revert" -> p.out = Revert(r, p.arg)
      [] p.op = "RevertValid" -> p.out = RevertValid(r, p.arg)
      [] p.op = "Values" -> p.out.values = Values(r, p.s)
      [] p.op = "Template" -> p.out.str = CompileRegexp(pattern).template
      [] OTHER -> FALSE

\* C14: once CompileRegexp has returned, the compiled pattern stays what
\* CompileRegexp made it (template, groups, indices) whatever calls are
\* under way or finished, and under every interleaving of the steps of
\* callers that each hold a bag of their own, a finished call has returned
\* what it would have returned alone and left its bag as it would have.
C14_Concurrent ==
    phase = "ready" =>
        /\ r = CompileRegexp(pattern)
        /\ \A c \in Callers :
              procs[c].pc = "done" =>
                  /\ Alone(procs[c])
                  /\ procs[c].bag = procs[c].out.values

\* Both callers reverting at once, the second begun before the first ended.
C14_Witness ==
    /\ phase = "ready"
    /\ pattern = Chars("(\\d)(?P<foo>\\d)")
    /\ procs[1].pc = "done"
    /\ procs[1].op = "RevertValid"
    /\ procs[1].out.str = <<"1", "2">>
    /\ procs[2].pc = "loop"
    /\ procs[2].op = "Revert"
    /\ procs[2].k = 2
    /\ procs[2].vars = <<<<"a">>>>

\* How often x stands in seq.
Count(seq, x) == Cardinality({i \in 1..Len(seq) : seq[i] = x})

\* One value per group, each unlike any text of a pattern.
Marker(k) == <<"#" \o ToString(k)>>
Markers(n) == [k \in 1..n |-> Marker(k)]

\* What Sprintf writes for a verb and an argument that do not meet.
ErrorMarks == {"%!(EXTRA)", "%!(NOVERB)", "%!(MISSING)", "%!(BADVERB)"}

\* The '%' runes among the literals the walk writes.
LiteralPercents(re) == Count(Segments(Items(re), 1), Rune("%"))

\* C15: for every compiled pattern Groups(), Indices() and the placeholders
\* of the template are equally many and the indices strictly increase; a
\* literal '%' stands doubled in the template and neither forms nor
\* consumes a placeholder: rendering the template with one value per group
\* writes every value exactly once, every literal '%' once, and no mark
\* of a missing or surplus argument.
C15_Placeholders ==
    phase = "ready" =>
        LET n == Len(Groups(r))
            rendered == Sprintf(Template(r), 1, Markers(Len(Groups(r))), 1)
        IN  /\ Len(Indices(r)) = n
            /\ Placeholders(Template(r), 1) = n
            /\ \A k \in 1..(Len(Indices(r)) - 1) :
                  Indices(r)[k] < Indices(r)[k + 1]
            /\ Count(Template(r), "%") = 2 * LiteralPercents(r.re) + n
            /\ \A k \in 1..n : Count(rendered, "#" \o ToString(k)) = 1
            /\ Count(rendered, "%") = LiteralPercents(r.re)
            /\ \A i \in 1..Len(rendered) : rendered[i] \notin ErrorMarks

C15_Witness ==
    /\ phase = "ready"
    /\ pattern = Chars("(\\d(a))(?P<foo>\\d)")
    /\ Template(r) = Chars("%s%s")
    /\ Groups(r) = <<<<>>, Chars("foo")>>
    /\ Indices(r) = <<1, 3>>
    /\ Sprintf(Template(r), 1, Markers(2), 1) = <<"#1", "#2">>

\* How many groups of the first j patterns of the chain carry the key.
RECURSIVE CarriedBy(_, _, _)
CarriedBy(rs, j, key) ==
    IF j = 0 THEN 0
    ELSE Carrying(rs[j].groups, Len(rs[j].groups), key) + CarriedBy(rs, j - 1, key)

\* The bag without the values the first j patterns of the chain use up.
Without(bag, rs, j) ==
    IF bag.nil THEN bag
    ELSE MakeValues([key \in DOMAIN bag.m |->
                        Drop(bag.m[key], CarriedBy(rs, j, key))])

\* The first j reverts of the chain have all succeeded.
Succeeded(j) == \A i \in 1..j : chain.done[i].out.err = ""

\* C16: when one bag is reverted against several compiled patterns in
\* turn and the reverts so far have all succeeded, the j-th one has
\* rendered its pattern with the values that follow, under each key, those
\* the patterns before it used up (as many as they have groups carrying
\* the key), and has left of the first bag, under each key, its list
\* without as many values as the first j patterns have groups carrying
\* the key; no key is added or removed.
C16_Chain ==
    \A j \in 1..Len(chain.done) :
        Succeeded(j) =>
            /\ chain.done[j].arg = Without(chain.done[1].arg, chain.rs, j - 1)
            /\ chain.done[j].out.str
                  = Filled(Segments(Items(chain.rs[j].re), 1), 1, 1,
                           chain.rs[j].groups,
                           Without(chain.done[1].arg, chain.rs, j - 1))
            /\ chain.done[j].out.values
                  = Without(chain.done[1].arg, chain.rs, j)

C16_Witness ==
    /\ Len(chain.done) = 2
    /\ Succeeded(2)
    /\ chain.rs[1].groups = <<<<>>>>
    /\ chain.rs[2].groups = <<<<>>, Chars("foo")>>
    /\ Get(chain.done[1].arg, <<>>) = <<<<"a">>, <<"1">>>>
    /\ Get(chain.done[1].arg, Chars("foo")) = <<<<"2">>, <<"2">>>>
    /\ chain.done[1].out.str = <<"a">>
    /\ chain.done[2].out.str = <<"1", "2">>
    /\ Get(values, <<>>) = <<>>
    /\ Get(values, Chars("foo")) = <<<<"2">>>>

\* C17: a failed call leaves the bag as far as it got.  After Revert (or
\* the Revert inside RevertValid) has failed at the k-th group for want of
\* a value, each key's list has lost the values taken for the groups
\* before the k-th and nothing else; after RevertValid has failed for a
\* mismatch, the bag is as a successful Revert leaves it.  The bag the
\* caller holds for its next call is this shortened one.
C17_NotRestored ==
    (call.op \in {"Revert", "RevertValid"} /\ call.out.err # "") =>
        /\ values = call.out.values
        /\ call.out.values.nil = call.arg.nil
        /\ DOMAIN call.out.values.m = DOMAIN call.arg.m
        /\ call.out.err = "missing" =>
              \A key \in AllKeys(r, call.arg) :
                  Get(call.out.values, key)
                      = Drop(Get(call.arg, key),
                             Carrying(Groups(r),
                                      FirstExhausted(Groups(r), call.arg) - 1,
                                      key))
        /\ call.out.err = "mismatch" =>
              /\ call.op = "RevertValid"
              /\ call.out.values = Revert(r, call.arg).values
              /\ \A key \in AllKeys(r, call.arg) :
                    Get(call.out.values, key)
                        = Drop(Get(call.arg, key),
                               Carrying(Groups(r), Len(Groups(r)), key))

C17_Witness ==
    /\ call.op = "Revert"
    /\ pattern = Chars("(\\d)(?P<foo>\\d)")
    /\ Get(call.arg, <<>>) = <<<<"1">>, <<"a">>>>
    /\ Get(call.arg, Chars("foo")) = <<>>
    /\ call.out.err = "missing"
    /\ call.out.key = Chars("foo")
    /\ Get(values, <<>>) = <<<<"a">>>>

===========================================================================
